---- MODULE Spec2Model ----
(***************************************************************************)
(* The two messenger pages (src/frontend/src/app/websocket/page.tsx and    *)
(* src/frontend/src/app/sse/page.tsx): the `messages` collection, the      *)
(* socket page's `messageIds` tracker, the `isConnected` flag, the         *)
(* snapshot fetch and the transport callbacks.                             *)
(*                                                                         *)
(* One session is one mounted page.  Every callback and every updater      *)
(* passed to setMessages runs to completion on the single JavaScript       *)
(* thread, so each is one action; updates are applied in the order the     *)
(* set-calls are made.                                                     *)
(***************************************************************************)
EXTENDS Integers, Sequences, FiniteSets, TLC

\* ------------------------------------------------------------------ bounds
\* longest snapshot the backend returns
MaxSnapshot == 2
\* number of frames the transport delivers in one session
MaxEvents == 3

\* ---------------------------------------------------------------- messages
\* `_id?: string` left out of the object
NoId == "<undefined>"
\* the `_id`s the backend assigns (non-empty strings)
Ids == {"a", "b"}
Texts == {"t1", "t2"}
Authors == {"Al"}

\* interface Message
Message == [_id : Ids \cup {NoId}, author : Authors, text : Texts]

\* JavaScript truthiness of `msg._id`: undefined and "" are falsy
Truthy(id) == id # NoId /\ id # ""

\* event.data: a JSON text of a Message, or a text JSON.parse rejects
Payload == [json : {TRUE}, msg : Message]
             \cup {[json |-> FALSE, msg |-> [_id |-> NoId, author |-> "Al", text |-> "t1"]]}

\* JSON.parse(event.data) throws
ParseThrows(p) == ~p.json
\* JSON.parse(event.data) as Message
JSONparse(p) == p.msg

\* the sequences over S of length at most n
SeqsUpTo(S, n) == UNION {[1..k -> S] : k \in 0..n}

\* the `_id`s of a collection, in order
IdsOf(arr) == [k \in 1..Len(arr) |-> arr[k]._id]

\* what GET /messages returns: stored documents, no two with the same `_id`
Snapshots ==
  {s \in SeqsUpTo(Message, MaxSnapshot) :
     \A i, j \in 1..Len(s) : (i # j /\ s[i]._id # NoId) => s[i]._id # s[j]._id}

\* ----------------------------------------------------------- the handlers
\* findIndex with a predicate that never matches
findIndexNever(prev, id) == 0

\* prev.findIndex((m) => m._id === id), 1-based; 0 stands for -1
findIndex(prev, id) ==
  IF \E k \in 1..Len(prev) : prev[k]._id = id
  THEN CHOOSE k \in 1..Len(prev) :
         /\ prev[k]._id = id
         /\ \A j \in 1..(k - 1) : prev[j]._id # id
  ELSE 0

\* the socket page's handler without its two duplicate checks
WsOptimisticAppend(prev, ids, msg) ==
  [messages |-> Append(prev, msg),
   messageIds |-> IF Truthy(msg._id) THEN ids \cup {msg._id} ELSE ids]

\* the socket page's handler without its messageIds.current.add
WsForgetsTracker(prev, ids, msg) ==
  IF ~Truthy(msg._id)
  THEN [messages |-> Append(prev, msg), messageIds |-> ids]
  ELSE IF msg._id \in ids
  THEN [messages |-> prev, messageIds |-> ids]
  ELSE LET existingIndex == findIndex(prev, msg._id)
       IN  IF existingIndex # 0
           THEN [messages |-> [prev EXCEPT ![existingIndex] = msg], messageIds |-> ids]
           ELSE [messages |-> Append(prev, msg), messageIds |-> ids]

\* websocket/page.tsx handleNewMessage: the updater and its writes to messageIds
WsHandleNewMessage(prev, ids, msg) ==
  IF ~Truthy(msg._id)
  THEN [messages |-> Append(prev, msg), messageIds |-> ids]
  ELSE IF msg._id \in ids
  THEN [messages |-> prev, messageIds |-> ids]
  ELSE LET existingIndex == findIndex(prev, msg._id)
       IN  IF existingIndex # 0
           THEN [messages |-> [prev EXCEPT ![existingIndex] = msg],
                 messageIds |-> ids \cup {msg._id}]
           ELSE [messages |-> Append(prev, msg),
                 messageIds |-> ids \cup {msg._id}]

\* the push-only page's handler without its findIndex branch
SseAlwaysAppend(prev, msg) == Append(prev, msg)

\* sse/page.tsx handleNewMessage: the updater
SseHandleNewMessage(prev, msg) ==
  LET idx == findIndex(prev, msg._id)
  IN  IF idx # 0 THEN [prev EXCEPT ![idx] = msg] ELSE Append(prev, msg)

\* loadMessages without its forEach over the snapshot
SnapshotIdsNone(snap) == {}

\* websocket/page.tsx loadMessages: the ids added to the tracker
SnapshotIds(snap) == {snap[k]._id : k \in {j \in 1..Len(snap) : Truthy(snap[j]._id)}}

\* ------------------------------------------------------------------- state
VARIABLES
  variant,      \* which page is mounted: "ws", "sse"; "pair" runs both handlers side by side
  phase,        \* "rendered" (useState done), "mounted" (effect ran), "unmounted" (cleanup ran)
  fetch,        \* the GET /messages of loadMessages: "idle", "pending", "done" (a 2xx
                \* response was taken as the snapshot), "error" (another response
                \* was), "failed" (the catch ran)
  readyState,   \* the WebSocket / EventSource: "none", "connecting", "open", "closing", "closed"
  messages,     \* useState<Message[]>([])
  messageIds,   \* useRef<Set<string>>(new Set()), socket page only
  isConnected,  \* useState(false)
  escaped,      \* an exception or a promise rejection was left uncaught
  text,         \* useState(''): the draft in the message input
  author,       \* useState(''): the name input
  editingId,    \* useState<string | null>(null)
  editText,     \* useState('')
  sendPending,  \* calls of sendMessage waiting in `await fetch(.../publish)`
  editPending,  \* calls of saveEdit waiting in `await fetch(.../edit/id)`
  peer,         \* "pair" only: the push-only page's collection, fed the same inputs
  lastSignal,   \* history: the last transport lifecycle callback that ran
  lastEvent,    \* history: <<p>> when the previous step was onmessage with payload p,
                \* <<p, p>> when the step before it was too, <<>> after any other step
  nEvents,      \* history: number of frames delivered
  snapshot,     \* history: what GET /messages returned, once it has
  seen,         \* history: the truthy ids the stream has delivered
  created       \* history: the truthy ids live events appended, in order

vars == <<variant, phase, fetch, readyState, messages, messageIds, isConnected,
          escaped, text, author, editingId, editText, sendPending, editPending, peer, lastSignal, lastEvent, nEvents, snapshot, seen, created>>

page == <<messages, messageIds, isConnected, escaped>>
form == <<text, author, editingId, editText>>
requests == <<sendPending, editPending>>
history == <<lastSignal, lastEvent, nEvents, snapshot, seen, created>>

Variants == {"ws", "sse"}

\* null, the value of editingId while nothing is edited
Null == "<null>"

\* the component function's first render: every useState / useRef initial value
InitPage ==
  /\ phase = "rendered"
  /\ fetch = "idle"
  /\ readyState = "none"
  /\ messages = <<>>
  /\ messageIds = {}
  /\ isConnected = FALSE
  /\ escaped = FALSE
  /\ text = ""
  /\ author = ""
  /\ editingId = Null
  /\ editText = ""
  /\ sendPending = 0
  /\ editPending = 0
  /\ peer = <<>>
  /\ lastSignal = "none"
  /\ lastEvent = <<>>
  /\ nEvents = 0
  /\ snapshot = <<>>
  /\ seen = {}
  /\ created = <<>>

Init == variant \in Variants /\ InitPage

\* useEffect(() => { loadMessages(); setupWebSocket() / setupSSE(); ... }, [])
Mount ==
  /\ phase = "rendered"
  /\ phase' = "mounted"
  /\ fetch' = "pending"
  /\ readyState' = "connecting"
  /\ lastEvent' = <<>>
  /\ UNCHANGED <<variant, form, requests, page, peer, lastSignal, nEvents, snapshot, seen, created>>

\* loadMessages after `await response.json()` gave `snap`:
\* setMessages(messages), and on the socket page the forEach over the ids
LoadMessagesOk(snap) ==
  /\ fetch = "pending"
  /\ fetch' = "done"
  /\ messages' = snap
  /\ messageIds' = IF variant = "ws" THEN messageIds \cup SnapshotIds(snap) ELSE messageIds
  /\ snapshot' = snap
  /\ lastEvent' = <<>>
  /\ UNCHANGED <<variant, form, requests, phase, readyState, isConnected, escaped, peer,
                 lastSignal, nEvents, seen, created>>

\* loadMessages when fetch or response.json() rejects: the catch logs
LoadMessagesFail ==
  /\ fetch = "pending"
  /\ fetch' = "failed"
  /\ lastEvent' = <<>>
  /\ UNCHANGED <<variant, form, requests, phase, readyState, page, peer,
                 lastSignal, nEvents, snapshot, seen, created>>

\* the body of a response that is not 2xx: a JSON array of at most one
\* message, or a text response.json() rejects
ErrorBodies ==
  [json : {TRUE}, value : {s \in Snapshots : Len(s) <= 1}]
    \cup {[json |-> FALSE, value |-> <<>>]}

\* loadMessages when fetch resolves with a response that is not 2xx:
\* response.ok is not read, so a body that parses is set as the snapshot was,
\* and one that does not parse goes to the catch
LoadMessagesNotOk(body) ==
  /\ fetch = "pending"
  /\ IF body.json
     THEN /\ fetch' = "error"
          /\ messages' = body.value
          /\ messageIds' = IF variant = "ws"
                           THEN messageIds \cup SnapshotIds(body.value)
                           ELSE messageIds
          /\ snapshot' = body.value
     ELSE /\ fetch' = "failed"
          /\ UNCHANGED <<messages, messageIds, snapshot>>
  /\ lastEvent' = <<>>
  /\ UNCHANGED <<variant, form, requests, phase, readyState, isConnected, escaped, peer,
                 lastSignal, nEvents, seen, created>>

\* ws.current.onopen
WsOnOpen ==
  /\ variant = "ws"
  /\ readyState = "connecting"
  /\ readyState' = "open"
  /\ isConnected' = TRUE
  /\ lastSignal' = "open"
  /\ lastEvent' = <<>>
  /\ UNCHANGED <<variant, form, requests, phase, fetch, messages, messageIds, escaped, peer,
                 nEvents, snapshot, seen, created>>

\* ws.current.onclose: the close event, after the server closed, after an error,
\* or after the cleanup's ws.current.close()
WsOnClose ==
  /\ variant = "ws"
  /\ readyState \in {"open", "closing"}
  /\ readyState' = "closed"
  /\ isConnected' = FALSE
  /\ lastSignal' = "close"
  /\ lastEvent' = <<>>
  /\ UNCHANGED <<variant, form, requests, phase, fetch, messages, messageIds, escaped, peer,
                 nEvents, snapshot, seen, created>>

\* an onerror that logs and leaves the flag alone
WsOnErrorSilent ==
  /\ variant = "ws"
  /\ \/ readyState \in {"connecting", "open"}
     \/ readyState = "closing" /\ lastSignal # "error"
  /\ readyState' = "closing"
  /\ lastSignal' = "error"
  /\ lastEvent' = <<>>
  /\ UNCHANGED <<variant, form, requests, phase, fetch, page, peer,
                 nEvents, snapshot, seen, created>>

\* ws.current.onerror: the connection failed; the close event follows. The
\* handler stays assigned after close(), so the error event of a socket that is
\* closing (closed while connecting, or failing during the closing handshake)
\* runs it too; a socket gets the event once
WsOnError ==
  /\ variant = "ws"
  /\ \/ readyState \in {"connecting", "open"}
     \/ readyState = "closing" /\ lastSignal # "error"
  /\ readyState' = "closing"
  /\ isConnected' = FALSE
  /\ lastSignal' = "error"
  /\ lastEvent' = <<>>
  /\ UNCHANGED <<variant, form, requests, phase, fetch, messages, messageIds, escaped, peer,
                 nEvents, snapshot, seen, created>>

\* evtSource.onopen
SseOnOpen ==
  /\ variant = "sse"
  /\ readyState = "connecting"
  /\ readyState' = "open"
  /\ isConnected' = TRUE
  /\ lastSignal' = "open"
  /\ lastEvent' = <<>>
  /\ UNCHANGED <<variant, form, requests, phase, fetch, messages, messageIds, escaped, peer,
                 nEvents, snapshot, seen, created>>

\* evtSource.onerror: the EventSource reconnects (reconnect) or gives up
SseOnError(reconnect) ==
  /\ variant = "sse"
  /\ readyState \in {"connecting", "open"}
  /\ readyState' = IF reconnect THEN "connecting" ELSE "closed"
  /\ isConnected' = FALSE
  /\ lastSignal' = "error"
  /\ lastEvent' = <<>>
  /\ UNCHANGED <<variant, form, requests, phase, fetch, messages, messageIds, escaped, peer,
                 nEvents, snapshot, seen, created>>

\* lastEvent after onmessage with payload p
Run(p) == IF lastEvent # <<>> /\ lastEvent[1] = p THEN <<p, p>> ELSE <<p>>

\* history kept by a delivered frame that decoded to msg
Delivered(p, msg, after) ==
  /\ lastEvent' = Run(p)
  /\ nEvents' = nEvents + 1
  /\ seen' = IF Truthy(msg._id) THEN seen \cup {msg._id} ELSE seen
  /\ created' = IF /\ Truthy(msg._id)
                   /\ Len(after) = Len(messages) + 1
                THEN Append(created, msg._id)
                ELSE created

\* history kept by a delivered frame that did not decode
Dropped(p) ==
  /\ lastEvent' = Run(p)
  /\ nEvents' = nEvents + 1
  /\ UNCHANGED <<seen, created>>

\* ws.current.onmessage: try { JSON.parse; handleNewMessage } catch { log }
WsOnMessage(p) ==
  /\ variant = "ws"
  /\ readyState = "open"
  /\ IF ParseThrows(p)
     THEN /\ UNCHANGED <<messages, messageIds>>
          /\ Dropped(p)
     ELSE LET r == WsHandleNewMessage(messages, messageIds, JSONparse(p))
          IN  /\ messages' = r.messages
              /\ messageIds' = r.messageIds
              /\ Delivered(p, JSONparse(p), r.messages)
  /\ UNCHANGED <<variant, form, requests, phase, fetch, readyState, isConnected, escaped, peer,
                 lastSignal, snapshot>>

\* evtSource.onmessage: JSON.parse; handleNewMessage, with no try around them
SseOnMessage(p) ==
  /\ variant = "sse"
  /\ readyState = "open"
  /\ IF ParseThrows(p)
     THEN /\ escaped' = TRUE
          /\ UNCHANGED messages
          /\ Dropped(p)
     ELSE LET after == SseHandleNewMessage(messages, JSONparse(p))
          IN  /\ messages' = after
              /\ UNCHANGED escaped
              /\ Delivered(p, JSONparse(p), after)
  /\ UNCHANGED <<variant, form, requests, phase, fetch, readyState, messageIds, isConnected, peer,
                 lastSignal, snapshot>>

\* a cleanup that leaves the socket as it is
WsUnmountNoClose ==
  /\ variant = "ws"
  /\ phase = "mounted"
  /\ phase' = "unmounted"
  /\ lastEvent' = <<>>
  /\ UNCHANGED <<variant, form, requests, fetch, readyState, page, peer,
                 lastSignal, nEvents, snapshot, seen, created>>

\* the effect's cleanup on the socket page: if (ws.current) ws.current.close()
WsUnmount ==
  /\ variant = "ws"
  /\ phase = "mounted"
  /\ phase' = "unmounted"
  /\ readyState' = IF readyState \in {"connecting", "open"} THEN "closing" ELSE readyState
  /\ lastEvent' = <<>>
  /\ UNCHANGED <<variant, form, requests, fetch, page, peer, lastSignal, nEvents, snapshot, seen, created>>

\* the cleanup setupSSE returns: evtSource.close(); setIsConnected(false)
SseUnmount ==
  /\ variant = "sse"
  /\ phase = "mounted"
  /\ phase' = "unmounted"
  /\ readyState' = "closed"
  /\ isConnected' = FALSE
  /\ lastEvent' = <<>>
  /\ UNCHANGED <<variant, form, requests, fetch, messages, messageIds, escaped, peer,
                 lastSignal, nEvents, snapshot, seen, created>>

Next ==
  \/ Mount
  \/ \E snap \in Snapshots : LoadMessagesOk(snap)
  \/ LoadMessagesFail
  \/ \E body \in ErrorBodies : LoadMessagesNotOk(body)
  \/ WsOnOpen
  \/ WsOnClose
  \/ WsOnError
  \/ SseOnOpen
  \/ \E reconnect \in BOOLEAN : SseOnError(reconnect)
  \/ nEvents < MaxEvents /\ \E p \in Payload : WsOnMessage(p)
  \/ nEvents < MaxEvents /\ \E p \in Payload : SseOnMessage(p)
  \/ WsUnmount
  \/ SseUnmount

Spec == Init /\ [][Next]_vars

\* ------------------------------------------------ the form and the gateway
\* most calls of one kind waiting in their `await fetch` at a time
MaxInFlight == 1
\* number of frames the transport delivers in a session of SpecUI
MaxUiEvents == 1

\* what the user types into the message input and the name input
TextInputs == {"", " ", "hi"}
AuthorInputs == {"", "Al"}
\* what the user types into the edit input
EditInputs == {"t2"}

\* String.prototype.trim on the typed strings
Trim(str) == IF str = " " THEN "" ELSE str

\* how an `await fetch(...)` settles: a 2xx response, another response, a rejection
Outcomes == {"ok", "notok", "reject"}

\* the messages the backend sends in a session of SpecUI
UiMessage == {m \in Message : m._id \in {"a", NoId}}
UiPayload == {p \in Payload : p.msg \in UiMessage}
UiSnapshots == {s \in Snapshots : Len(s) <= 1 /\ \A k \in 1..Len(s) : s[k] \in UiMessage}
UiErrorBodies == {b \in ErrorBodies : b.value \in UiSnapshots}

\* onChange of the name input: setAuthor(e.target.value)
SetAuthor(v) ==
  /\ phase = "mounted"
  /\ author # v
  /\ author' = v
  /\ lastEvent' = <<>>
  /\ UNCHANGED <<variant, phase, fetch, readyState, page, text, editingId, editText,
                 requests, peer, lastSignal, nEvents, snapshot, seen, created>>

\* onChange of the message input: setText(e.target.value)
SetText(v) ==
  /\ phase = "mounted"
  /\ text # v
  /\ text' = v
  /\ lastEvent' = <<>>
  /\ UNCHANGED <<variant, phase, fetch, readyState, page, author, editingId, editText,
                 requests, peer, lastSignal, nEvents, snapshot, seen, created>>

\* sendMessage up to its `await fetch(.../publish)`; with an empty trimmed
\* text or author it returns before the fetch
SendMessage ==
  /\ phase = "mounted"
  /\ Trim(text) # ""
  /\ Trim(author) # ""
  /\ sendPending' = sendPending + 1
  /\ lastEvent' = <<>>
  /\ UNCHANGED <<variant, phase, fetch, readyState, page, form, editPending, peer,
                 lastSignal, nEvents, snapshot, seen, created>>

\* sendMessage with the setMessages(prev => [...prev, optimisticMessage]) of the
\* commented-out "Option 2"
WsSendMessageOptimistic(outcome) ==
  /\ variant = "ws"
  /\ sendPending > 0
  /\ sendPending' = sendPending - 1
  /\ text' = IF outcome = "ok" THEN "" ELSE text
  /\ messages' = Append(messages, [_id |-> "temp", author |-> author, text |-> Trim(text)])
  /\ lastEvent' = <<>>
  /\ UNCHANGED <<variant, phase, fetch, readyState, messageIds, isConnected, escaped,
                 author, editingId, editText,
                 editPending, peer, lastSignal, nEvents, snapshot, seen, created>>

\* websocket/page.tsx sendMessage after the await: setText('') if response.ok,
\* else a log; the catch logs a rejection
WsSendMessageSettled(outcome) ==
  /\ variant = "ws"
  /\ sendPending > 0
  /\ sendPending' = sendPending - 1
  /\ text' = IF outcome = "ok" THEN "" ELSE text
  /\ lastEvent' = <<>>
  /\ UNCHANGED <<variant, phase, fetch, readyState, page, author, editingId, editText,
                 editPending, peer, lastSignal, nEvents, snapshot, seen, created>>

\* sse/page.tsx sendMessage after the await: setText('') whatever the response;
\* a rejection leaves the async function, uncaught
SseSendMessageSettled(outcome) ==
  /\ variant = "sse"
  /\ sendPending > 0
  /\ sendPending' = sendPending - 1
  /\ text' = IF outcome = "reject" THEN text ELSE ""
  /\ escaped' = (escaped \/ outcome = "reject")
  /\ lastEvent' = <<>>
  /\ UNCHANGED <<variant, phase, fetch, readyState, messages, messageIds, isConnected,
                 author, editingId, editText, editPending, peer,
                 lastSignal, nEvents, snapshot, seen, created>>

\* onClick of the pencil of entry k, rendered on the author's own messages that
\* are not being edited: setEditingId(message._id || null); setEditText(message.text)
StartEdit(k) ==
  /\ phase = "mounted"
  /\ k \in 1..Len(messages)
  /\ messages[k].author = author
  /\ editingId # messages[k]._id
  /\ editingId' = IF Truthy(messages[k]._id) THEN messages[k]._id ELSE Null
  /\ editText' = messages[k].text
  /\ lastEvent' = <<>>
  /\ UNCHANGED <<variant, phase, fetch, readyState, page, text, author,
                 requests, peer, lastSignal, nEvents, snapshot, seen, created>>

\* an entry shows the edit input: editingId === message._id
EditInputShown == \E k \in 1..Len(messages) : messages[k]._id = editingId

\* onChange of the edit input: setEditText(e.target.value)
TypeEditText(v) ==
  /\ phase = "mounted"
  /\ EditInputShown
  /\ editText # v
  /\ editText' = v
  /\ lastEvent' = <<>>
  /\ UNCHANGED <<variant, phase, fetch, readyState, page, text, author, editingId,
                 requests, peer, lastSignal, nEvents, snapshot, seen, created>>

\* onClick of the cancel button, which only the socket page renders:
\* setEditingId(null)
CancelEdit ==
  /\ variant = "ws"
  /\ phase = "mounted"
  /\ EditInputShown
  /\ editingId' = Null
  /\ lastEvent' = <<>>
  /\ UNCHANGED <<variant, phase, fetch, readyState, page, text, author, editText,
                 requests, peer, lastSignal, nEvents, snapshot, seen, created>>

\* saveEdit(message._id!) up to its `await fetch(.../edit/id)`
SaveEdit ==
  /\ phase = "mounted"
  /\ EditInputShown
  /\ editPending' = editPending + 1
  /\ lastEvent' = <<>>
  /\ UNCHANGED <<variant, phase, fetch, readyState, page, form, sendPending, peer,
                 lastSignal, nEvents, snapshot, seen, created>>

\* saveEdit after the await (the same on both pages): setEditingId(null);
\* setEditText(''); a rejection leaves the async function, uncaught
SaveEditSettled(outcome) ==
  /\ editPending > 0
  /\ editPending' = editPending - 1
  /\ editingId' = IF outcome = "reject" THEN editingId ELSE Null
  /\ editText' = IF outcome = "reject" THEN editText ELSE ""
  /\ escaped' = (escaped \/ outcome = "reject")
  /\ lastEvent' = <<>>
  /\ UNCHANGED <<variant, phase, fetch, readyState, messages, messageIds, isConnected,
                 text, author, sendPending, peer,
                 lastSignal, nEvents, snapshot, seen, created>>

\* a session with the form in use, on a short stream
NextUI ==
  \/ Mount
  \/ \E snap \in UiSnapshots : LoadMessagesOk(snap)
  \/ LoadMessagesFail
  \/ \E body \in UiErrorBodies : LoadMessagesNotOk(body)
  \/ WsOnOpen
  \/ WsOnClose
  \/ WsOnError
  \/ SseOnOpen
  \/ \E reconnect \in BOOLEAN : SseOnError(reconnect)
  \/ nEvents < MaxUiEvents /\ \E p \in UiPayload : WsOnMessage(p)
  \/ nEvents < MaxUiEvents /\ \E p \in UiPayload : SseOnMessage(p)
  \/ WsUnmount
  \/ SseUnmount
  \/ \E v \in AuthorInputs : SetAuthor(v)
  \/ \E v \in TextInputs : SetText(v)
  \/ sendPending < MaxInFlight /\ SendMessage
  \/ \E outcome \in Outcomes : WsSendMessageSettled(outcome)
  \/ \E outcome \in Outcomes : SseSendMessageSettled(outcome)
  \/ \E k \in 1..Len(messages) : StartEdit(k)
  \/ \E v \in EditInputs : TypeEditText(v)
  \/ CancelEdit
  \/ editPending < MaxInFlight /\ SaveEdit
  \/ \E outcome \in Outcomes : SaveEditSettled(outcome)

SpecUI == Init /\ [][NextUI]_vars

\* ------------------------------------------------- the pages side by side
\* Both handlers fed one snapshot and one sequence of decoded events:
\* `messages` / `messageIds` are the socket page's, `peer` the push-only page's.
InitPair == variant = "pair" /\ InitPage

PairLoadMessages(snap) ==
  /\ variant = "pair"
  /\ fetch \in {"idle", "pending"}
  /\ fetch' = "done"
  /\ messages' = snap
  /\ messageIds' = messageIds \cup SnapshotIds(snap)
  /\ peer' = snap
  /\ snapshot' = snap
  /\ lastEvent' = <<>>
  /\ UNCHANGED <<variant, form, requests, phase, readyState, isConnected, escaped,
                 lastSignal, nEvents, seen, created>>

PairOnMessage(p) ==
  /\ variant = "pair"
  /\ ~ParseThrows(p)
  /\ LET r == WsHandleNewMessage(messages, messageIds, JSONparse(p))
     IN  /\ messages' = r.messages
         /\ messageIds' = r.messageIds
         /\ Delivered(p, JSONparse(p), r.messages)
  /\ peer' = SseHandleNewMessage(peer, JSONparse(p))
  /\ UNCHANGED <<variant, form, requests, phase, fetch, readyState, isConnected, escaped,
                 lastSignal, snapshot>>

NextPair ==
  \/ \E snap \in Snapshots : PairLoadMessages(snap)
  \/ nEvents < MaxEvents /\ \E p \in Payload : PairOnMessage(p)

SpecPair == InitPair /\ [][NextPair]_vars

\* ------------------------------------------------------------------ claims
\* the elements of a sequence
Range(s) == {s[k] : k \in 1..Len(s)}

\* the number of entries of arr whose `_id` is id
Count(arr, id) == Cardinality({k \in 1..Len(arr) : arr[k]._id = id})

\* s is t with entries left out, order kept
IsSubseq(s, t) ==
  \E f \in [1..Len(s) -> 1..Len(t)] :
    /\ \A k \in 1..Len(s) : t[f[k]] = s[k]
    /\ \A k, l \in 1..Len(s) : k < l => f[k] < f[l]

\* this step is onmessage
OnMessageStep == nEvents' = nEvents + 1
\* the payload this step's onmessage got
Frame == lastEvent'[1]
\* this step is onmessage and the payload decoded
HandledStep == OnMessageStep /\ ~ParseThrows(Frame)
\* the message this step's onmessage handed to handleNewMessage
Incoming == JSONparse(Frame)

\* C1: on both pages, in every reachable state, no two entries of `messages`
\* carry the same present `_id` (present: an `_id` the code's own test
\* `if (msg._id)` takes as present), given a snapshot without repeated ids.
C1_NoDuplicateIds ==
  \A i, j \in 1..Len(messages) :
    (i # j /\ Truthy(messages[i]._id)) => messages[i]._id # messages[j]._id

\* C1 witness: the snapshot has loaded and the last step redelivered one of
\* its ids on top of a collection of at least two entries.
C1_Witness ==
  /\ variant = "ws"
  /\ fetch = "done"
  /\ Len(messages) >= 2
  /\ lastEvent # <<>>
  /\ ~ParseThrows(lastEvent[1])
  /\ JSONparse(lastEvent[1])._id \in SnapshotIds(snapshot)

\* C2: on both pages, when the collection holds an entry with present id i,
\* handling a live event with id i puts the incoming message at that entry's
\* index and leaves the length and every other entry as they were.
C2_UpdateInPlace ==
  [][(/\ HandledStep
      /\ Truthy(Incoming._id)
      /\ findIndex(messages, Incoming._id) # 0)
     => messages' = [messages EXCEPT ![findIndex(messages, Incoming._id)] = Incoming]]_vars

\* C3: on both pages, handling a live event without `_id` appends exactly one
\* entry at the end and changes no entry that was there.
C3_NoIdAppends ==
  [][(HandledStep /\ Incoming._id = NoId) => messages' = Append(messages, Incoming)]_vars

\* C4: on both pages, handling a message with a present `_id` a second time in
\* a row leaves the collection as the first handling left it.
C4_Idempotent ==
  [][(/\ HandledStep
      /\ Truthy(Incoming._id)
      /\ lastEvent # <<>>
      /\ lastEvent[1] = Frame)
     => messages' = messages]_vars

\* C4 witness: a message with a present `_id` has just been handled twice in a row.
C4_Witness ==
  /\ variant = "ws"
  /\ Len(lastEvent) = 2
  /\ ~ParseThrows(lastEvent[1])
  /\ Truthy(JSONparse(lastEvent[1])._id)
  /\ Count(messages, JSONparse(lastEvent[1])._id) = 1

\* C5: on both pages, once the snapshot has loaded and the stream has
\* delivered an event with an id i of the snapshot, in either order, the
\* collection holds exactly one entry with id i; and handling, after the
\* snapshot, an event equal in every field to a snapshot entry that is still in
\* the collection leaves the collection as it was.
C5_DedupAcrossSnapshotAndStream ==
  /\ [](\A i \in Ids :
          (fetch = "done" /\ i \in SnapshotIds(snapshot) /\ i \in seen)
            => Count(messages, i) = 1)
  /\ [][(/\ HandledStep
         /\ fetch = "done"
         /\ Truthy(Incoming._id)
         /\ Incoming \in Range(snapshot)
         /\ Incoming \in Range(messages))
        => messages' = messages]_vars

\* C5 witness: a live event created id i before the snapshot arrived, the
\* snapshot holds i, and the last step redelivered the snapshot's entry.
C5_Witness ==
  /\ variant = "ws"
  /\ fetch = "done"
  /\ lastEvent # <<>>
  /\ ~ParseThrows(lastEvent[1])
  /\ JSONparse(lastEvent[1]) \in Range(snapshot)
  /\ JSONparse(lastEvent[1])._id \in Range(created)
  /\ Count(messages, JSONparse(lastEvent[1])._id) = 1

\* C6: on both pages, no step of a running session removes an entry: every
\* present id with an entry before the step has one after it, and the
\* collection never gets shorter.
C6_NeverRemoved ==
  [][phase = "mounted"
     => /\ Len(messages') >= Len(messages)
        /\ \A k \in 1..Len(messages) :
             Truthy(messages[k]._id) => Count(messages', messages[k]._id) >= 1]_vars

\* C7: on both pages, once the snapshot has loaded the collection is the
\* snapshot's entries in the backend's order followed by the entries live
\* events created, in delivery order: the snapshot's ids head the collection
\* and every id a live event created is in it, in the order of creation.
C7_ArrivalOrder ==
  fetch = "done"
    => /\ Len(messages) >= Len(snapshot)
       /\ \A k \in 1..Len(snapshot) : messages[k]._id = snapshot[k]._id
       /\ IsSubseq(created, IdsOf(messages))

\* C8: fed the same snapshot and the same sequence of live events, the socket
\* page's handler and the push-only page's handler hold the same collection
\* after every event.
C8_VariantsAgree == variant = "pair" => messages = peer

\* C9: `isConnected` starts false; while the session runs it is true exactly
\* when the last transport lifecycle callback to run was onopen; and a step
\* that is no lifecycle callback and no cleanup (a frame, the snapshot's
\* arrival or failure, typing, sending, editing) leaves it as it was.
C9_ConnectionHealth ==
  /\ [](phase \in {"rendered", "mounted"} => (isConnected <=> lastSignal = "open"))
  /\ [][(readyState' = readyState /\ phase' = phase /\ lastSignal' = lastSignal)
          => isConnected' = isConnected]_vars

\* C9 witness: a running socket session that opened, got a frame and was then
\* closed by the server, with a publish request still in flight.
C9_Witness ==
  /\ variant = "ws"
  /\ phase = "mounted"
  /\ nEvents >= 1
  /\ fetch = "done"
  /\ sendPending >= 1
  /\ lastSignal = "close"
  /\ ~isConnected

\* C10: on both pages, a frame that fails to decode is dropped: collection,
\* tracker and connection flag stay as they were, no exception leaves the
\* message callback, and the stream stays open for the frames that follow.
C10_MalformedDropped ==
  [][(OnMessageStep /\ ParseThrows(Frame))
     => UNCHANGED <<messages, messageIds, isConnected, escaped, readyState>>]_vars

\* C11: on both pages, when the snapshot fetch fails (the fetch rejects, or
\* the response is not 2xx), that step leaves the collection, the tracker and
\* the transport as they were, so the stream goes on on top of them.
C11_SnapshotFailureHarmless ==
  [][(fetch = "pending" /\ fetch' \in {"failed", "error"})
     => UNCHANGED <<messages, messageIds, readyState, escaped>>]_vars

\* C12: on both pages, a step of sendMessage or saveEdit (the call or the
\* settling of its request, whatever the outcome) leaves the collection and the
\* tracker as they were; they change only when a frame is handled or the
\* snapshot request settles.
C12_GatewayLeavesCollection ==
  [][/\ (sendPending' # sendPending \/ editPending' # editPending)
          => UNCHANGED <<messages, messageIds>>
     /\ (messages' # messages \/ messageIds' # messageIds)
          => (OnMessageStep \/ (fetch = "pending" /\ fetch' # "pending"))]_vars

\* C12 witness: a frame has been handled into the collection while a publish
\* request and an edit request are both in flight.
C12_Witness ==
  /\ nEvents >= 1
  /\ Len(messages) >= 1
  /\ sendPending >= 1
  /\ editPending >= 1

\* C13: on both pages, when the publish request fails (the fetch rejects or
\* the response is not 2xx), the settling of sendMessage leaves the draft
\* `text` as it was.
C13_DraftKeptOnFailure ==
  [][\A outcome \in {"notok", "reject"} :
       (WsSendMessageSettled(outcome) \/ SseSendMessageSettled(outcome))
         => text' = text]_vars

\* the session with the browser's guarantee that a socket that is closing
\* gets its close event
SpecLive == Spec /\ WF_vars(WsOnClose)

\* C14: on both pages, once the cleanup has run the transport is closing or
\* closed, no frame is handled any more, `isConnected` becomes false (at once
\* on the sse page, with the close event on the socket page) and once false
\* stays false.
C14_StoppedSessionIsQuiet ==
  /\ [](phase = "unmounted" => readyState \in {"closing", "closed"})
  /\ [](phase = "unmounted" /\ (variant = "sse" \/ readyState = "closed") => ~isConnected)
  /\ [][phase' = "unmounted" => ~OnMessageStep]_vars
  /\ [][(phase = "unmounted" /\ ~isConnected) => ~isConnected']_vars
  /\ (phase = "unmounted") ~> (readyState = "closed" /\ ~isConnected)

\* C14 witness: a socket session that handled a frame, was unmounted while
\* open, and whose close event has since run.
C14_Witness ==
  /\ variant = "ws"
  /\ phase = "unmounted"
  /\ nEvents >= 1
  /\ readyState = "closed"
  /\ lastSignal = "close"
  /\ ~isConnected

\* C15: on both pages, no frame is handled while the snapshot request started
\* by the effect is still pending.
C15_SnapshotBeforeStream == fetch = "pending" => nEvents = 0

\* C16: on the socket page, an event with a present id is discarded (the step
\* leaves the collection and the tracker as they were, and no entry equal to
\* the event is in the collection) only when its id is tracked and no entry
\* with that id is in the collection.
C16_DiscardOnlyUnmaterialized ==
  [][(/\ variant = "ws"
      /\ HandledStep
      /\ Truthy(Incoming._id)
      /\ UNCHANGED <<messages, messageIds>>
      /\ Incoming \notin Range(messages'))
     => (Incoming._id \in messageIds /\ findIndex(messages, Incoming._id) = 0)]_vars

\* C17: on both pages, handling an event whose present id is neither tracked
\* nor in the collection appends it as the last entry and leaves the earlier
\* entries as they were; the socket page adds exactly that id to the tracker.
C17_CreateAppends ==
  [][(/\ HandledStep
      /\ Truthy(Incoming._id)
      /\ Incoming._id \notin messageIds
      /\ findIndex(messages, Incoming._id) = 0)
     => /\ messages' = Append(messages, Incoming)
        /\ messageIds' = IF variant = "ws"
                         THEN messageIds \cup {Incoming._id}
                         ELSE messageIds]_vars

\* C17 witness: on the socket page the last step appended a fresh id behind
\* an earlier entry and tracked it.
C17_Witness ==
  /\ variant = "ws"
  /\ Len(messages) >= 2
  /\ lastEvent # <<>>
  /\ ~ParseThrows(lastEvent[1])
  /\ messages[Len(messages)] = JSONparse(lastEvent[1])
  /\ created # <<>>
  /\ created[Len(created)] = messages[Len(messages)]._id
  /\ messages[Len(messages)]._id \in messageIds

\* C18: on the socket page the tracker holds the present id of every entry of
\* the collection, and no step takes an id out of the tracker.
C18_TrackerCoversCollection ==
  /\ [](variant = "ws"
          => \A k \in 1..Len(messages) :
               Truthy(messages[k]._id) => messages[k]._id \in messageIds)
  /\ [][messageIds \subseteq messageIds']_vars

\* C18 witness: on the socket page the collection holds a snapshot entry and
\* an entry a live event created, both tracked.
C18_Witness ==
  /\ variant = "ws"
  /\ fetch = "done"
  /\ SnapshotIds(snapshot) # {}
  /\ created # <<>>
  /\ \E k \in 1..Len(messages) :
       messages[k]._id = created[Len(created)] /\ messages[k]._id \notin SnapshotIds(snapshot)
  /\ Cardinality(messageIds) >= 2

\* C19: on both pages, the settling of saveEdit clears `editingId` and
\* `editText` whatever the outcome (2xx, another response, a rejection) and
\* leaves the collection as it was.
C19_EditStateCleared ==
  [][\A outcome \in Outcomes :
       SaveEditSettled(outcome)
         => (editingId' = Null /\ editText' = "" /\ messages' = messages)]_vars

\* C20: on both pages, every present id the stream has delivered has an entry
\* in the collection, right after its frame and in every state in which the
\* snapshot request is no longer pending; and on the socket page every tracked
\* id has an entry in the collection.
C20_DeliveredStaysMaterialized ==
  /\ \A i \in seen :
       (fetch # "pending" \/ (lastEvent # <<>> /\ lastEvent[1].msg._id = i))
         => Count(messages, i) >= 1
  /\ \A i \in messageIds : Count(messages, i) >= 1

====
